---------------------------- MODULE Spec2Model ----------------------------
(***************************************************************************)
(* Model of sharpe_optimizer.py: the price -> returns -> moments ->        *)
(* optimizer -> report pipeline run by main(), and the pure functions      *)
(* portfolio_stats, negative_sharpe and optimize_sharpe.                   *)
(*                                                                         *)
(* Floating-point values are modelled exactly: a value is a rational       *)
(* number, NaN, or (for (1 + m)^252 - 1, which does not fit TLC's          *)
(* integers) an unevaluated term.  A square root is kept as the            *)
(* radicand, a quotient by a square root as numerator and radicand.        *)
(* yfinance, pandas and scipy are not part of the repository: yf.download  *)
(* and scipy.optimize.minimize are nondeterministic inputs, and the two    *)
(* pandas behaviours of pct_change (forward fill or not) are both kept.    *)
(***************************************************************************)
EXTENDS Integers, Sequences, FiniteSets

VARIABLES
    pc,               \* position of main(): the next statement to run
    tickers,          \* main: tickers = tickers_input.split()
    window,           \* main: <<start, end>> as read from the prompt
    rf_rate,          \* main: rf_rate
    pandas_pad,       \* the installed pandas forward-fills in pct_change
    prices,           \* main: prices (a table)
    returns,          \* main: returns (a table)
    exp_returns,      \* main: exp_returns (vector mu)
    cov_annual,       \* main: cov_annual (matrix Sigma)
    optimal_weights,  \* main: optimal_weights
    stats,            \* main: (port_ret, port_vol, port_sharpe)
    out,              \* what the run has shown the user, in order
    err,              \* the uncaught exception that ended the run, if any
    attempts,         \* how many times each pipeline step was started
    call,             \* the arguments of the last scipy minimize() call
    ev_pc,            \* direct call of a pure function: ready/returned/raised
    ev_in,            \* its inputs (mu, Sigma, r_f)
    ev_op,            \* the function called
    ev_w,             \* the weight vector passed (portfolio_stats)
    ev_res,           \* the scipy result the call saw (optimize_sharpe)
    ev_ret,           \* the value returned
    ev_err            \* the exception raised

main_vars == <<pc, tickers, window, rf_rate, pandas_pad, prices, returns,
               exp_returns, cov_annual, optimal_weights, stats, out, err, attempts>>
ev_vars == <<ev_pc, ev_in, ev_op, ev_w, ev_res, ev_ret, ev_err>>
vars == <<main_vars, call, ev_vars>>

-----------------------------------------------------------------------------
(* Bounds of the model *)

MaxN == 2            \* assets in a direct call of the pure functions
MaxT == 3            \* timestamps of a downloaded price table
MaxTickers == 2      \* identifiers typed at the prompt

-----------------------------------------------------------------------------
(* Exact rationals <<n, d>>, d > 0, in lowest terms *)

Abs(x) == IF x < 0 THEN -x ELSE x

RECURSIVE GCD(_, _)
GCD(a, b) == IF b = 0 THEN a ELSE GCD(b, a % b)

Q(n, d) ==
    LET s == IF d < 0 THEN -1 ELSE 1
        g == GCD(Abs(n), Abs(d))
    IN  <<(s * n) \div g, (s * d) \div g>>

QAdd(a, b) == Q(a[1] * b[2] + b[1] * a[2], a[2] * b[2])
QSub(a, b) == Q(a[1] * b[2] - b[1] * a[2], a[2] * b[2])
QMul(a, b) == Q(a[1] * b[1], a[2] * b[2])
QDiv(a, b) == Q(a[1] * b[2], a[2] * b[1])

-----------------------------------------------------------------------------
(* Float values: k = "fin" (the rational q), "nan", or "sym" (the term e) *)

Fin(q) == [k |-> "fin", q |-> q, e |-> <<>>]
Num(n) == Fin(<<n, 1>>)
NaN == [k |-> "nan", q |-> <<0, 1>>, e |-> <<>>]
Sym(e) == [k |-> "sym", q |-> <<0, 1>>, e |-> e]
Zero == Num(0)
One == Num(1)

IsZero(a) == a.k = "fin" /\ a.q[1] = 0

FAdd(a, b) ==
    IF a.k = "nan" \/ b.k = "nan" THEN NaN
    ELSE IF a.k = "fin" /\ b.k = "fin" THEN Fin(QAdd(a.q, b.q))
    ELSE IF IsZero(a) THEN b
    ELSE IF IsZero(b) THEN a
    ELSE Sym(<<"add", a, b>>)

FSub(a, b) ==
    IF a.k = "nan" \/ b.k = "nan" THEN NaN
    ELSE IF a.k = "fin" /\ b.k = "fin" THEN Fin(QSub(a.q, b.q))
    ELSE IF IsZero(b) THEN a
    ELSE Sym(<<"sub", a, b>>)

FMul(a, b) ==
    IF a.k = "nan" \/ b.k = "nan" THEN NaN
    ELSE IF a.k = "fin" /\ b.k = "fin" THEN Fin(QMul(a.q, b.q))
    ELSE IF IsZero(a) \/ IsZero(b) THEN Zero
    ELSE Sym(<<"mul", a, b>>)

\* a / b for rational a and b, b not zero (the divisors of the program are
\* prices and observation counts).
FDiv(a, b) ==
    IF a.k = "nan" \/ b.k = "nan" THEN NaN
    ELSE Fin(QDiv(a.q, b.q))

RECURSIVE FSum(_)
FSum(s) == IF s = <<>> THEN Zero ELSE FAdd(FSum(SubSeq(s, 1, Len(s) - 1)), s[Len(s)])

\* np.sqrt: the root of q >= 0 is kept as its radicand sq; of q < 0 it is nan.
Root(q) == [k |-> "fin", sq |-> q]
RootNaN == [k |-> "nan", sq |-> <<0, 1>>]
Sqrt(v) ==
    IF v.k = "nan" THEN RootNaN
    ELSE IF v.q[1] < 0 THEN RootNaN
    ELSE Root(v.q)
RootIsZero(r) == r.k = "fin" /\ r.sq[1] = 0

\* x / sqrt(sq): k = "fin" (num / sqrt(den.sq)), "nan", "pinf" or "ninf".
Quot(k, num, den) == [k |-> k, num |-> num, den |-> den]
QuotZero == Quot("fin", Zero, Root(<<1, 1>>))
QuotNaN == Quot("nan", Zero, Root(<<1, 1>>))
QuotInf(k) == Quot(k, Zero, Root(<<1, 1>>))
FDivRoot(a, r) ==
    IF a.k = "nan" \/ r.k = "nan" THEN QuotNaN
    ELSE IF RootIsZero(r)
         THEN CASE a.k = "fin" /\ a.q[1] > 0 -> QuotInf("pinf")
                [] a.k = "fin" /\ a.q[1] < 0 -> QuotInf("ninf")
                [] a.k = "fin" /\ a.q[1] = 0 -> QuotNaN
    ELSE IF IsZero(a) THEN QuotZero
    ELSE Quot("fin", a, r)
QuotNeg(s) ==
    CASE s.k = "fin" -> IF IsZero(s.num) THEN s ELSE Quot("fin", FSub(Zero, s.num), s.den)
      [] s.k = "pinf" -> QuotInf("ninf")
      [] s.k = "ninf" -> QuotInf("pinf")
      [] s.k = "nan" -> s

\* weights @ exp_returns
Dot(w, mu) == FSum([i \in 1..Len(w) |-> FMul(w[i], mu[i])])
\* weights @ cov_matrix @ weights
Quad(w, cov) ==
    FSum([j \in 1..Len(w) |->
            FMul(FSum([i \in 1..Len(w) |-> FMul(w[i], cov[i][j])]), w[j])])

-----------------------------------------------------------------------------
(* Portfolio statistics *)

portfolio_stats(weights, mu, cov_matrix, risk_free_rate) ==
    LET port_ret == Dot(weights, mu)
        port_var == Quad(weights, cov_matrix)
        port_vol == Sqrt(port_var)
        sharpe == IF RootIsZero(port_vol)
                  THEN QuotZero
                  ELSE FDivRoot(FSub(port_ret, risk_free_rate), port_vol)
    IN  [ret |-> port_ret, vol |-> port_vol, sharpe |-> sharpe]

negative_sharpe(weights, mu, cov_matrix, risk_free_rate) ==
    QuotNeg(portfolio_stats(weights, mu, cov_matrix, risk_free_rate).sharpe)

-----------------------------------------------------------------------------
(* Optimization *)

\* The call optimize_sharpe makes: what it hands to scipy.optimize.minimize.
minimize_call_scaled(mu, cov_matrix, risk_free_rate) ==
    LET num_assets == Len(mu)
    IN  [fun |-> "negative_sharpe",
         x0 |-> [i \in 1..num_assets |-> One],
         args |-> <<mu, cov_matrix, risk_free_rate>>,
         method |-> "SLSQP",
         bounds |-> [i \in 1..num_assets |-> <<Zero, One>>],
         constraints |-> <<[type |-> "eq", fun |-> "lambda w: np.sum(w) - 1.0"]>>]

minimize_call(mu, cov_matrix, risk_free_rate) ==
    LET num_assets == Len(mu)
        x0 == [i \in 1..num_assets |-> FDiv(One, Num(num_assets))]
    IN  [fun |-> "negative_sharpe",
         x0 |-> x0,
         args |-> <<mu, cov_matrix, risk_free_rate>>,
         method |-> "SLSQP",
         bounds |-> [i \in 1..num_assets |-> <<Zero, One>>],
         constraints |-> <<[type |-> "eq", fun |-> "lambda w: np.sum(w) - 1.0"]>>]

\* The functions the call names, applied.
ApplyConstraint(c, w) ==
    CASE c.fun = "lambda w: np.sum(w) - 1.0" -> FSub(FSum(w), One)
ApplyObjective(c, w) ==
    CASE c.fun = "negative_sharpe" -> negative_sharpe(w, c.args[1], c.args[2], c.args[3])

\* scipy's OptimizeResult is an input of the program.  The points it may
\* hold lie on a grid; a result reporting success holds a point that meets
\* the constraint and the bounds of the call, any other result any point.
\* (No point of an empty call, N = 0, meets sum(w) = 1: it only fails.)
GridVals == {Zero, Fin(<<1, 2>>), One}
Grid(n) == [1..n -> GridVals]
FailureMessages == {"Iteration limit reached",
                    "Positive directional derivative for linesearch"}
Results(c) ==
    LET n == Len(c.x0)
    IN  {[success |-> TRUE, message |-> "Optimization terminated successfully", x |-> x] :
            x \in {y \in Grid(n) : \A k \in 1..Len(c.constraints) :
                                       IsZero(ApplyConstraint(c.constraints[k], y))}}
        \cup [success : {FALSE}, message : FailureMessages, x : Grid(n)]

NoError == [type |-> "none", msg |-> <<>>]
Return(v) == [raised |-> FALSE, error |-> NoError, value |-> v]
Raise(type, msg) == [raised |-> TRUE, error |-> [type |-> type, msg |-> msg], value |-> <<>>]

\* optimize_sharpe after minimize() has returned `result`.
optimize_sharpe_unchecked(result) == Return(result.x)

optimize_sharpe(result) ==
    IF ~result.success
    THEN Raise("RuntimeError", <<"Optimization failed: ", result.message>>)
    ELSE Return(result.x)

-----------------------------------------------------------------------------
(* Direct calls of the pure functions, on inputs drawn from small sets *)

MuVals == {Zero, Num(2)}
RfVals == {Zero, Num(1)}
CovVals == {Num(-1), Zero, Num(1)}
\* Symmetric matrices: any diagonal, one value off the diagonal.
Matrices(n) == {[i \in 1..n |-> [j \in 1..n |-> IF i = j THEN d[i] ELSE o]] :
                   d \in [1..n -> CovVals], o \in CovVals}
Inputs == UNION {[mu : [1..n -> MuVals], cov : Matrices(n), rf : RfVals] : n \in 0..MaxN}
NoResult == [success |-> FALSE, message |-> "", x |-> <<>>]
NoCall == [fun |-> "", x0 |-> <<>>, args |-> <<>>, method |-> "",
           bounds |-> <<>>, constraints |-> <<>>]

EvalInit ==
    /\ ev_pc = "ready"
    /\ ev_in \in Inputs
    /\ ev_op = ""
    /\ ev_w = <<>>
    /\ ev_res = NoResult
    /\ ev_ret = <<>>
    /\ ev_err = NoError

EvalPortfolioStats ==
    /\ ev_pc = "ready"
    /\ \E w \in Grid(Len(ev_in.mu)) :
         /\ ev_w' = w
         /\ ev_ret' = portfolio_stats(w, ev_in.mu, ev_in.cov, ev_in.rf)
    /\ ev_op' = "portfolio_stats"
    /\ ev_pc' = "returned"
    /\ UNCHANGED <<ev_in, ev_res, ev_err, call, main_vars>>

EvalOptimizeSharpe ==
    /\ ev_pc = "ready"
    /\ LET c == minimize_call(ev_in.mu, ev_in.cov, ev_in.rf)
       IN  /\ call' = c
           /\ \E result \in Results(c) :
                LET o == optimize_sharpe(result)
                IN  /\ ev_res' = result
                    /\ ev_ret' = o.value
                    /\ ev_err' = o.error
                    /\ ev_pc' = IF o.raised THEN "raised" ELSE "returned"
    /\ ev_op' = "optimize_sharpe"
    /\ UNCHANGED <<ev_in, ev_w, main_vars>>

-----------------------------------------------------------------------------
(* Data loading and returns *)

\* A table (DataFrame): the asset of each column, and the rows in index
\* order, each with its timestamp t and one value per column (NaN: missing).
Table(field, cols, rows) == [field |-> field, cols |-> cols, rows |-> rows]
NoTable == Table("", <<>>, <<>>)
Row(t, v) == [t |-> t, v |-> v]

\* DataFrame.dropna(how="all"): a row goes only if all of its values are missing.
dropna_all(rows) == SelectSeq(rows, LAMBDA r : \E c \in 1..Len(r.v) : r.v[c].k # "nan")

\* DataFrame.ffill: the last observation at or before row i, per column.
ffill(rows) ==
    [i \in 1..Len(rows) |->
        Row(rows[i].t,
            [c \in 1..Len(rows[i].v) |->
                LET seen == {j \in 1..i : rows[j].v[c].k # "nan"}
                IN  IF seen = {} THEN NaN
                    ELSE rows[CHOOSE j \in seen : \A h \in seen : h <= j].v[c]])]

\* DataFrame.pct_change(): x / x.shift(1) - 1, on the forward-filled table
\* where pandas still fills (fill_method="pad", the default before pandas 3).
pct_change(rows, pad) ==
    LET x == IF pad THEN ffill(rows) ELSE rows
    IN  [i \in 1..Len(rows) |->
            Row(rows[i].t,
                [c \in 1..Len(rows[i].v) |->
                    IF i = 1 THEN NaN
                    ELSE FSub(FDiv(x[i].v[c], x[i - 1].v[c]), One)])]

\* What yf.download may hand back for the identifiers asked for: one column
\* per distinct identifier, in any order, under the fields it carries, over
\* 0..MaxT timestamps, a price or a gap in each cell.  A single-level frame
\* (multi = FALSE) has one asset.
Universe == {"A", "B"}
PriceCells == {Num(1), Num(2), NaN}
Range(s) == {s[i] : i \in 1..Len(s)}
Orders(S) == {s \in [1..Cardinality(S) -> S] : Range(s) = S}
FieldSets == {{"Adj Close", "Close"}, {"Close"}, {"Volume"}}
Levels(tk) == {b \in BOOLEAN : b \/ Cardinality(Range(tk)) = 1}
Cells(T, n) == [1..T -> [1..n -> PriceCells]]
Frame(f, m, cols, cells) ==
    [fields |-> f, multi |-> m, cols |-> cols,
     rows |-> [i \in 1..Len(cells) |-> Row(i, cells[i])]]

\* Lines 52-76.  The field is chosen the same way under either kind of
\* column index (lines 56-70); a single-level selection is a Series, which
\* to_frame turns into the one-column table it is modelled as.
download_prices(data) ==
    IF data.rows = <<>>
    THEN Raise("ValueError", <<"No data downloaded. Check tickers and date range.">>)
    ELSE IF "Adj Close" \in data.fields
         THEN Return(Table("Adj Close", data.cols, dropna_all(data.rows)))
         ELSE IF "Close" \in data.fields
              THEN Return(Table("Close", data.cols, dropna_all(data.rows)))
              ELSE Raise("ValueError", <<"Could not find 'Adj Close' or 'Close' in columns">>)

compute_daily_returns_keep_first(p, pad) ==
    Table(p.field, p.cols, pct_change(p.rows, pad))

compute_daily_returns(p, pad) ==
    Table(p.field, p.cols, dropna_all(pct_change(p.rows, pad)))

-----------------------------------------------------------------------------
(* Moment estimation *)

TradingDays == 252

\* (1 + mean_daily) ** trading_days - 1: exact where the power is 0 or 1,
\* otherwise the term itself.
annualize_returns(mean_daily, trading_days) ==
    LET base == FAdd(One, mean_daily)
    IN  IF base.k = "nan" THEN NaN
        ELSE IF base.q = <<1, 1>> \/ base.q = <<0, 1>> THEN FSub(base, One)
        ELSE Sym(<<"pow", base.q, trading_days, "- 1">>)

annualize_covariance(daily_cov, trading_days) ==
    [i \in 1..Len(daily_cov) |->
        [j \in 1..Len(daily_cov) |-> FMul(daily_cov[i][j], Num(trading_days))]]

\* DataFrame.mean(): per column, over the values present; nan if there are none.
Mean(rows, c) ==
    LET obs == SelectSeq(rows, LAMBDA r : r.v[c].k # "nan")
    IN  IF obs = <<>> THEN NaN
        ELSE FDiv(FSum([i \in 1..Len(obs) |-> obs[i].v[c]]), Num(Len(obs)))

\* DataFrame.cov(): per pair of columns, over the rows where both are
\* present, with the n - 1 denominator; nan on fewer than two such rows.
Cov(rows, a, b) ==
    LET obs == SelectSeq(rows, LAMBDA r : r.v[a].k # "nan" /\ r.v[b].k # "nan")
        n == Len(obs)
        ma == FDiv(FSum([i \in 1..n |-> obs[i].v[a]]), Num(n))
        mb == FDiv(FSum([i \in 1..n |-> obs[i].v[b]]), Num(n))
    IN  IF n < 2 THEN NaN
        ELSE FDiv(FSum([i \in 1..n |->
                          FMul(FSub(obs[i].v[a], ma), FSub(obs[i].v[b], mb))]),
                  Num(n - 1))

-----------------------------------------------------------------------------
(* main *)

Steps == {"prompt", "download", "returns", "estimate", "print_mu", "print_cov",
          "optimize", "stats", "print_weights", "print_stats", "plot"}
Item(kind, label, src) == [kind |-> kind, label |-> label, src |-> src]
\* zip(tickers, values): one line per pair, as many as the shorter has; src
\* is the asset of the column the value at that position was computed from.
Zip(kind, tk, values, cols) ==
    [i \in 1..(IF Len(tk) < Len(values) THEN Len(tk) ELSE Len(values)) |->
        Item(kind, tk[i], cols[i])]
Started(step) == attempts' = [attempts EXCEPT ![step] = @ + 1]
TickerInputs == UNION {[1..n -> Universe] : n \in 0..MaxTickers}
Windows == {<<"2020-01-01", "2021-01-01">>}
RateInputs == {"", "4", "abc"}

MainInit ==
    /\ pc = "prompt"
    /\ tickers = <<>>
    /\ window = <<"", "">>
    /\ rf_rate = Zero
    /\ pandas_pad \in BOOLEAN
    /\ prices = NoTable
    /\ returns = NoTable
    /\ exp_returns = <<>>
    /\ cov_annual = <<>>
    /\ optimal_weights = <<>>
    /\ stats = <<>>
    /\ out = <<>>
    /\ err = NoError
    /\ attempts = [s \in Steps |-> 0]
    /\ call = NoCall

\* Lines 249-256: fewer than two identifiers end the run with exit status 1.
ReadTooFewTickers ==
    /\ pc = "prompt"
    /\ \E tk \in TickerInputs :
         /\ Len(tk) < 2
         /\ tickers' = tk
    /\ out' = out \o <<Item("banner", "", ""), Item("error", "", "")>>
    /\ pc' = "exit"
    /\ Started("prompt")
    /\ UNCHANGED <<window, rf_rate, pandas_pad, prices, returns, exp_returns,
                   cov_annual, optimal_weights, stats, err, call, ev_vars>>

\* Lines 249-266: the identifiers, the date range and the risk-free rate.
ReadInputs ==
    /\ pc = "prompt"
    /\ \E tk \in TickerInputs, w \in Windows, rf_str \in RateInputs :
         /\ Len(tk) >= 2
         /\ tickers' = tk
         /\ window' = w
         /\ rf_rate' = IF rf_str = "4" THEN FDiv(Num(4), Num(100)) ELSE Zero
         /\ out' = out \o <<Item("banner", "", "")>>
                       \o (IF rf_str = "abc" THEN <<Item("warn", "", "")>> ELSE <<>>)
    /\ pc' = "download"
    /\ Started("prompt")
    /\ UNCHANGED <<pandas_pad, prices, returns, exp_returns, cov_annual,
                   optimal_weights, stats, err, call, ev_vars>>

\* Line 269.
Download ==
    /\ pc = "download"
    /\ \E f \in FieldSets, m \in Levels(tickers), cols \in Orders(Range(tickers)),
          T \in 0..MaxT :
         \E cells \in Cells(T, Len(cols)) :
            LET o == download_prices(Frame(f, m, cols, cells))
            IN  /\ prices' = IF o.raised THEN prices ELSE o.value
                /\ err' = o.error
                /\ pc' = IF o.raised THEN "error" ELSE "returns"
    /\ Started("download")
    /\ UNCHANGED <<tickers, window, rf_rate, pandas_pad, returns, exp_returns,
                   cov_annual, optimal_weights, stats, out, call, ev_vars>>

\* Line 270.
ComputeReturns ==
    /\ pc = "returns"
    /\ returns' = compute_daily_returns(prices, pandas_pad)
    /\ pc' = "estimate"
    /\ Started("returns")
    /\ UNCHANGED <<tickers, window, rf_rate, pandas_pad, prices, exp_returns,
                   cov_annual, optimal_weights, stats, out, err, call, ev_vars>>

\* Lines 273-277.
EstimateMoments ==
    /\ pc = "estimate"
    /\ LET n == Len(returns.cols)
           mean_daily_returns == [c \in 1..n |-> Mean(returns.rows, c)]
           cov_daily == [a \in 1..n |-> [b \in 1..n |-> Cov(returns.rows, a, b)]]
       IN  /\ exp_returns' = [c \in 1..n |->
                                annualize_returns(mean_daily_returns[c], TradingDays)]
           /\ cov_annual' = annualize_covariance(cov_daily, TradingDays)
    /\ pc' = "print_mu"
    /\ Started("estimate")
    /\ UNCHANGED <<tickers, window, rf_rate, pandas_pad, prices, returns,
                   optimal_weights, stats, out, err, call, ev_vars>>

\* Lines 279-281.
PrintExpectedReturns ==
    /\ pc = "print_mu"
    /\ out' = out \o Zip("mu", tickers, exp_returns, returns.cols)
    /\ pc' = "print_cov"
    /\ Started("print_mu")
    /\ UNCHANGED <<tickers, window, rf_rate, pandas_pad, prices, returns, exp_returns,
                   cov_annual, optimal_weights, stats, err, call, ev_vars>>

\* Lines 283-284: pd.DataFrame(cov_annual, index=tickers, columns=tickers)
\* raises when the matrix is not len(tickers) x len(tickers).
PrintCovariance ==
    /\ pc = "print_cov"
    /\ IF Len(tickers) # Len(cov_annual)
       THEN /\ err' = [type |-> "ValueError", msg |-> <<"Shape of passed values">>]
            /\ pc' = "error"
            /\ out' = out
       ELSE /\ out' = out \o <<Item("cov", "", "")>>
            /\ pc' = "optimize"
            /\ err' = err
    /\ Started("print_cov")
    /\ UNCHANGED <<tickers, window, rf_rate, pandas_pad, prices, returns, exp_returns,
                   cov_annual, optimal_weights, stats, call, ev_vars>>

\* Line 287.
Optimize ==
    /\ pc = "optimize"
    /\ LET c == minimize_call(exp_returns, cov_annual, rf_rate)
       IN  /\ call' = c
           /\ \E result \in Results(c) :
                LET o == optimize_sharpe(result)
                IN  /\ optimal_weights' = o.value
                    /\ err' = o.error
                    /\ pc' = IF o.raised THEN "error" ELSE "stats"
    /\ Started("optimize")
    /\ UNCHANGED <<tickers, window, rf_rate, pandas_pad, prices, returns, exp_returns,
                   cov_annual, stats, out, ev_vars>>

\* Lines 289-291.
EvaluatePortfolio ==
    /\ pc = "stats"
    /\ stats' = portfolio_stats(optimal_weights, exp_returns, cov_annual, rf_rate)
    /\ pc' = "print_weights"
    /\ Started("stats")
    /\ UNCHANGED <<tickers, window, rf_rate, pandas_pad, prices, returns, exp_returns,
                   cov_annual, optimal_weights, out, err, call, ev_vars>>

\* Lines 293-295.
PrintWeights ==
    /\ pc = "print_weights"
    /\ out' = out \o Zip("weight", tickers, optimal_weights, returns.cols)
    /\ pc' = "print_stats"
    /\ Started("print_weights")
    /\ UNCHANGED <<tickers, window, rf_rate, pandas_pad, prices, returns, exp_returns,
                   cov_annual, optimal_weights, stats, err, call, ev_vars>>

\* Lines 297-300.
PrintStats ==
    /\ pc = "print_stats"
    /\ out' = out \o <<Item("stats", "", "")>>
    /\ pc' = "plot"
    /\ Started("print_stats")
    /\ UNCHANGED <<tickers, window, rf_rate, pandas_pad, prices, returns, exp_returns,
                   cov_annual, optimal_weights, stats, err, call, ev_vars>>

\* Line 303, plot_weights: one bar per position, labelled tickers[i].
plot_weights(tk, weights, cols) == Zip("bar", tk, weights, cols)

PlotWeights ==
    /\ pc = "plot"
    /\ out' = out \o plot_weights(tickers, optimal_weights, returns.cols)
    /\ pc' = "done"
    /\ Started("plot")
    /\ UNCHANGED <<tickers, window, rf_rate, pandas_pad, prices, returns, exp_returns,
                   cov_annual, optimal_weights, stats, err, call, ev_vars>>

-----------------------------------------------------------------------------
(* Specifications *)

\* A run of main().
Init == MainInit /\ EvalInit /\ ev_in = [mu |-> <<>>, cov |-> <<>>, rf |-> Zero]
Next ==
    \/ ReadTooFewTickers
    \/ ReadInputs
    \/ Download
    \/ ComputeReturns
    \/ EstimateMoments
    \/ PrintExpectedReturns
    \/ PrintCovariance
    \/ Optimize
    \/ EvaluatePortfolio
    \/ PrintWeights
    \/ PrintStats
    \/ PlotWeights
Spec == Init /\ [][Next]_vars

\* A direct call of portfolio_stats or optimize_sharpe.
InitEval == EvalInit /\ MainInit /\ pandas_pad = FALSE
NextEval ==
    \/ EvalPortfolioStats
    \/ EvalOptimizeSharpe
SpecEval == InitEval /\ [][NextEval]_vars

\* compute_daily_returns on any table download_prices can return.
InitReturns ==
    /\ MainInit /\ EvalInit /\ ev_in = [mu |-> <<>>, cov |-> <<>>, rf |-> Zero]
TakePrices ==
    /\ pc = "prompt"
    /\ \E S \in (SUBSET Universe) \ {{}}, f \in FieldSets, T \in 0..MaxT :
         \E cols \in Orders(S), cells \in Cells(T, Cardinality(S)) :
            LET o == download_prices(Frame(f, TRUE, cols, cells))
            IN  /\ ~o.raised
                /\ prices' = o.value
                /\ tickers' = cols
    /\ pc' = "returns"
    /\ UNCHANGED <<window, rf_rate, pandas_pad, returns, exp_returns, cov_annual,
                   optimal_weights, stats, out, err, attempts, call, ev_vars>>
NextReturns ==
    \/ TakePrices
    \/ ComputeReturns
SpecReturns == InitReturns /\ [][NextReturns]_vars

-----------------------------------------------------------------------------
(* Properties *)

QLe(a, b) == a[1] * b[2] <= b[1] * a[2]
Mu == ev_in.mu
Sigma == ev_in.cov
Rf == ev_in.rf
Called(op) == ev_op = op
ReturnsComputed == returns.cols # <<>>
ResultKinds == {"mu", "cov", "weight", "stats", "bar"}
Present(rows, c) == {i \in 1..Len(rows) : rows[i].v[c].k # "nan"}

\* C1: when the solver reports non-convergence, optimize_sharpe raises an
\* error carrying the solver's message and returns nothing; it returns a
\* weight vector (the solver's point) only when the solver reports success.
C1_FailureRaises ==
    Called("optimize_sharpe") =>
        /\ ~ev_res.success =>
              /\ ev_pc = "raised"
              /\ ev_err.type # "none"
              /\ ev_res.message \in Range(ev_err.msg)
        /\ ev_pc = "returned" => (ev_res.success /\ ev_ret = ev_res.x)

C1_Witness ==
    /\ Called("optimize_sharpe")
    /\ ~ev_res.success
    /\ ev_pc = "raised"
    /\ Len(ev_res.x) = 2
    /\ ev_res.message = "Iteration limit reached"

\* C3: portfolio_stats returns sharpe = (ret - r_f) / vol when vol > 0 and
\* sharpe = 0 otherwise, with ret = w.mu and vol = sqrt(w' Sigma w); a
\* zero-volatility portfolio yields neither an error nor an infinite Sharpe.
C3_SharpeFormula ==
    Called("portfolio_stats") =>
        LET ret == Dot(ev_w, Mu)
            var == Quad(ev_w, Sigma)
            vol == Sqrt(var)
        IN  /\ ev_pc = "returned"
            /\ ev_ret.ret = ret
            /\ IF vol.k = "fin" /\ vol.sq[1] > 0
               THEN ev_ret.sharpe = FDivRoot(FSub(ret, Rf), vol)
               ELSE ev_ret.sharpe = QuotZero
            /\ ev_ret.sharpe.k \notin {"pinf", "ninf"}

\* C4: when the variance w' Sigma w is negative, portfolio_stats reports a
\* NumericalInstabilityError instead of returning (ret, vol, sharpe).
C4_NegativeVarianceRaises ==
    (Called("portfolio_stats") /\ Quad(ev_w, Sigma).k = "fin" /\ Quad(ev_w, Sigma).q[1] < 0) =>
        (ev_pc = "raised" /\ ev_err.type = "NumericalInstabilityError")

\* C5: from a price table with T >= 2 timestamps and a price for every asset
\* at every timestamp, compute_daily_returns yields exactly T - 1 returns per
\* asset, the one at position t being P_t / P_{t-1} - 1.
C5_ReturnsOfCompletePrices ==
    LET T == Len(prices.rows)
        complete == \A i \in 1..T : \A c \in 1..Len(prices.cols) : prices.rows[i].v[c].k = "fin"
    IN  (ReturnsComputed /\ T >= 2 /\ complete) =>
            /\ Len(returns.rows) = T - 1
            /\ \A i \in 1..(T - 1) :
                 /\ Len(returns.rows) >= i => returns.rows[i].t = prices.rows[i + 1].t
                 /\ \A c \in 1..Len(prices.cols) :
                      Len(returns.rows) >= i =>
                          returns.rows[i].v[c] =
                              Fin(QSub(QDiv(prices.rows[i + 1].v[c].q, prices.rows[i].v[c].q),
                                       <<1, 1>>))

C5_Witness ==
    /\ ReturnsComputed
    /\ Len(prices.rows) = 3
    /\ Len(prices.cols) = 2
    /\ \A i \in 1..3 : \A c \in 1..2 : prices.rows[i].v[c].k = "fin"
    /\ Len(returns.rows) = 2
    /\ returns.rows[1].v[1] = Num(1)
    /\ returns.rows[2].v[1] = Fin(<<-1, 2>>)

\* C6: a timestamp at which the price of some asset is missing is dropped for
\* every asset: once download_prices and compute_daily_returns have run,
\* every remaining row has an observation for every asset.
C6_RowsComplete ==
    ReturnsComputed =>
        \A i \in 1..Len(returns.rows) :
            /\ \A c \in 1..Len(returns.cols) : returns.rows[i].v[c].k # "nan"
            /\ \A j \in 1..Len(prices.rows) :
                 prices.rows[j].t = returns.rows[i].t =>
                     \A c \in 1..Len(prices.cols) : prices.rows[j].v[c].k # "nan"

\* C7: with fewer than 2 usable timestamps, or an asset with no usable
\* return, the run aborts before the optimizer: optimize_sharpe is never
\* invoked on moments estimated from an empty return series.
C7_AbortsBeforeOptimizer ==
    (ReturnsComputed /\ \E c \in 1..Len(returns.cols) : Present(returns.rows, c) = {}) =>
        call = NoCall

\* C8: an error is terminal with no partial results: when the download, the
\* return computation, the moment estimation or optimize_sharpe fails, the
\* run has shown none of its results, and no step is run twice.
C8_NoPartialResults ==
    /\ (pc = "error" /\ (attempts["optimize"] = 1 \/ attempts["print_mu"] = 0)) =>
           \A i \in 1..Len(out) : out[i].kind \notin ResultKinds
    /\ \A s \in Steps : attempts[s] <= 1

\* C9: the initial point optimize_sharpe hands to the solver is the
\* equal-weight vector (1/N, ..., 1/N) and is feasible (sums to 1, each
\* component in [0, 1]); the solver gets N bounds [0, 1], the single equality
\* constraint sum(w) - 1 = 0 and the negated Sharpe ratio as objective
\* (both functions are compared at the point the solver's result holds).
Negated(a, b) ==
    \/ a.k = "nan" /\ b.k = "nan"
    \/ /\ a.k = "fin" /\ b.k = "fin"
       /\ a.den = b.den
       /\ IsZero(FAdd(a.num, b.num))
SolverSetup(n) ==
    /\ Len(call.x0) = n
    /\ \A i \in 1..n : call.x0[i] = Fin(Q(1, n))
    /\ FSum(call.x0) = One
    /\ \A i \in 1..n : QLe(<<0, 1>>, call.x0[i].q) /\ QLe(call.x0[i].q, <<1, 1>>)
    /\ Len(call.bounds) = n
    /\ \A i \in 1..n : call.bounds[i] = <<Zero, One>>
    /\ Len(call.constraints) = 1
    /\ call.constraints[1].type = "eq"
    /\ ApplyConstraint(call.constraints[1], ev_res.x) = FSub(FSum(ev_res.x), One)
    /\ Negated(ApplyObjective(call, ev_res.x), portfolio_stats(ev_res.x, Mu, Sigma, Rf).sharpe)

\* C9 as stated, for any length N.
C9_AnyLength == Called("optimize_sharpe") => SolverSetup(Len(Mu))

\* C9 amended: for any length N >= 1.
C9_NonEmpty == (Called("optimize_sharpe") /\ Len(Mu) >= 1) => SolverSetup(Len(Mu))

C9_Witness ==
    /\ Called("optimize_sharpe")
    /\ Len(Mu) = 2
    /\ call.x0 = <<Fin(<<1, 2>>), Fin(<<1, 2>>)>>
    /\ ev_pc = "returned"

\* C10: each printed expected return and each printed and plotted weight is
\* labelled with the identifier of the asset whose price column it was
\* computed from.
C10_LabelsMatch ==
    \A i \in 1..Len(out) :
        out[i].kind \in {"mu", "weight", "bar"} => out[i].label = out[i].src

=============================================================================
